---- MODULE Spec2Model ----
(***************************************************************************)
(* Python_API tutorial scripts: the retrying GET wrapper safe_api_request  *)
(* of part4_error_handling.py and the menu loops of part5_real_api.py      *)
(* (dashboard) and part3_user_input.py (main).                             *)
(***************************************************************************)
EXTENDS Integers, Sequences, FiniteSets, TLC

VARIABLES
    \* ---- safe_api_request (part 4) ----
    xpc,        \* "idle", "loop" (head of the for loop), "returned", "raised"
    retries,    \* the retries argument
    attempt,    \* the loop variable (0 before the first iteration)
    gets,       \* number of requests.get calls issued
    sleptAfter, \* the attempts after which time.sleep was called
    waited,     \* total seconds passed to time.sleep
    trace,      \* what the target produced, one entry per GET
    result,     \* the value returned
    \* ---- the menu loops (parts 3 and 5) ----
    prog,           \* the script that runs
    apiKey,         \* whether OPENWEATHER_API_KEY is set
    warnings,       \* times the missing-key warning of the import was printed
    keyMsgs,        \* times get_openweather said that no key was provided
    pc,             \* "Prompting", "Dispatching", "Exited", "Crashed"
    action,         \* the branch being dispatched
    choice,         \* the trimmed menu choice
    iterations,     \* loop iterations started
    unknownRead,    \* choices read so far that are no label of the menu
    dispatched,     \* menu actions invoked so far
    invalidMsgs,    \* invalid-option messages printed by the loop
    http,           \* HTTP requests issued in this iteration
    posts,          \* POST requests issued in this iteration
    written,        \* the files written in this iteration, with their data
    sub_choice,     \* the trimmed choice of the save menu in this iteration
    last_post_data, \* the global of that name, Absent until assigned
    created,        \* whether the server has created a post in this run
    returned,       \* the payload the server sent for the last post it created
    lines,          \* the lines typed to the action of this iteration
    out,            \* the messages printed by the last step
    crashedWith,    \* the exception that ended the loop, "none" otherwise
    crashedOn       \* what was typed and what the servers answered when it did

xvars == <<xpc, retries, attempt, gets, sleptAfter, waited, trace, result>>

dvars == <<prog, apiKey, warnings, keyMsgs, pc, action, choice, iterations, unknownRead,
           dispatched, invalidMsgs, http, posts, written, sub_choice, last_post_data, created,
           returned, lines, out, crashedWith, crashedOn>>

vars == <<xvars, dvars>>

(***************************************************************************)
(* Bounds                                                                  *)
(***************************************************************************)
MaxRetries == 3
MaxIterations == 3

(***************************************************************************)
(* JSON values, tagged by type.                                            *)
(***************************************************************************)
JNull == [t |-> "null"]
JNum(n) == [t |-> "num", n |-> n]
JStr(s) == [t |-> "str", s |-> s]
JObj(f) == [t |-> "obj", o |-> f]
JArr(a) == [t |-> "arr", a |-> a]

\* Response bodies the target may send, as text: JSON documents of the
\* endpoints the scripts call, and two bodies that are not JSON.

PostDocText ==
    "{\"id\": 101, \"title\": \"t\", \"body\": \"b\"}"

EmptyObjDocText ==
    "{}"

EmptyArrDocText ==
    "[]"

NullDocText ==
    "null"

TickerDocText ==
    "{\"name\": \"Bitcoin\", \"symbol\": \"BTC\", \"rank\": 1, \"quotes\": {\"USD\": {\"price\": 42000, \"market_cap\": 800, \"volume_24h\": 30, \"percent_change_1h\": 1, \"percent_change_24h\": 2, \"percent_change_7d\": 3}}}"

TickerNoQuotesDocText ==
    "{\"name\": \"Bitcoin\", \"symbol\": \"BTC\", \"rank\": 1}"

TickerNullPriceDocText ==
    "{\"name\": \"Bitcoin\", \"symbol\": \"BTC\", \"rank\": 1, \"quotes\": {\"USD\": {\"price\": null, \"market_cap\": 800, \"volume_24h\": 30, \"percent_change_1h\": 1, \"percent_change_24h\": 2, \"percent_change_7d\": 3}}}"

TopDocText ==
    "[{\"name\": \"Bitcoin\", \"symbol\": \"BTC\", \"rank\": 1, \"quotes\": {\"USD\": {\"price\": 42000, \"market_cap\": 800, \"volume_24h\": 30, \"percent_change_1h\": 1, \"percent_change_24h\": 2, \"percent_change_7d\": 3}}}]"

WeatherDocText ==
    "{\"current_weather\": {\"temperature\": 30, \"windspeed\": 5, \"winddirection\": 90, \"weathercode\": 0}}"

UserDocText ==
    "{\"name\": \"Leanne\", \"email\": \"l@example.org\", \"phone\": \"555\", \"website\": \"example.org\"}"

PostsDocText ==
    "[{\"id\": 1, \"title\": \"first\"}]"

OpenWeatherDocText ==
    "{\"main\": {\"temp\": 30, \"humidity\": 40}, \"wind\": {\"speed\": 3}, \"weather\": [{\"description\": \"clear sky\"}]}"

JsonTexts ==
    {PostDocText,
     EmptyObjDocText,
     EmptyArrDocText,
     NullDocText,
     TickerDocText,
     TickerNoQuotesDocText,
     TickerNullPriceDocText,
     TopDocText,
     WeatherDocText,
     UserDocText,
     PostsDocText,
     OpenWeatherDocText}

Bodies == JsonTexts \cup {"<html>", ""}

\* response.json(): TRUE when the text parses.
IsJson(text) == text \in JsonTexts

\* response.json(): the value the text parses to.
Loads(text) ==
    CASE text = PostDocText ->
           JObj([id |-> JNum(101), title |-> JStr("t"), body |-> JStr("b")])
      [] text = EmptyObjDocText ->
           JObj(<<>>)
      [] text = EmptyArrDocText ->
           JArr(<<>>)
      [] text = NullDocText ->
           JNull
      [] text = TickerDocText ->
           JObj([name |-> JStr("Bitcoin"), symbol |-> JStr("BTC"), rank |-> JNum(1), quotes |-> JObj([USD |-> JObj([price |-> JNum(42000), market_cap |-> JNum(800), volume_24h |-> JNum(30), percent_change_1h |-> JNum(1), percent_change_24h |-> JNum(2), percent_change_7d |-> JNum(3)])])])
      [] text = TickerNoQuotesDocText ->
           JObj([name |-> JStr("Bitcoin"), symbol |-> JStr("BTC"), rank |-> JNum(1)])
      [] text = TickerNullPriceDocText ->
           JObj([name |-> JStr("Bitcoin"), symbol |-> JStr("BTC"), rank |-> JNum(1), quotes |-> JObj([USD |-> JObj([price |-> JNull, market_cap |-> JNum(800), volume_24h |-> JNum(30), percent_change_1h |-> JNum(1), percent_change_24h |-> JNum(2), percent_change_7d |-> JNum(3)])])])
      [] text = TopDocText ->
           JArr(<<JObj([name |-> JStr("Bitcoin"), symbol |-> JStr("BTC"), rank |-> JNum(1), quotes |-> JObj([USD |-> JObj([price |-> JNum(42000), market_cap |-> JNum(800), volume_24h |-> JNum(30), percent_change_1h |-> JNum(1), percent_change_24h |-> JNum(2), percent_change_7d |-> JNum(3)])])])>>)
      [] text = WeatherDocText ->
           JObj([current_weather |-> JObj([temperature |-> JNum(30), windspeed |-> JNum(5), winddirection |-> JNum(90), weathercode |-> JNum(0)])])
      [] text = UserDocText ->
           JObj([name |-> JStr("Leanne"), email |-> JStr("l@example.org"), phone |-> JStr("555"), website |-> JStr("example.org")])
      [] text = PostsDocText ->
           JArr(<<JObj([id |-> JNum(1), title |-> JStr("first")])>>)
      [] text = OpenWeatherDocText ->
           JObj([main |-> JObj([temp |-> JNum(30), humidity |-> JNum(40)]), wind |-> JObj([speed |-> JNum(3)]), weather |-> JArr(<<JObj([description |-> JStr("clear sky")])>>)])

(***************************************************************************)
(* What one requests.get can produce: an exception, or a response with a   *)
(* status code and a body.                                                 *)
(***************************************************************************)
Exceptions == {"ConnectionError", "Timeout", "ConnectTimeout", "ReadTimeout",
               "TooManyRedirects", "InvalidURL", "KeyboardInterrupt"}

\* The direct base classes of the exception classes in play.
Bases(cls) ==
    CASE cls = "ConnectionError" -> {"RequestException"}
      [] cls = "Timeout" -> {"RequestException"}
      [] cls = "ConnectTimeout" -> {"ConnectionError", "Timeout"}
      [] cls = "ReadTimeout" -> {"Timeout"}
      [] cls = "HTTPError" -> {"RequestException"}
      [] cls = "TooManyRedirects" -> {"RequestException"}
      [] cls = "InvalidURL" -> {"RequestException", "ValueError"}
      [] cls = "InvalidJSONError" -> {"RequestException"}
      [] cls = "JSONDecodeError" -> {"InvalidJSONError", "ValueError"}
      [] cls = "KeyError" -> {"LookupError"}
      [] OTHER -> {}

RECURSIVE IsInstance(_, _)
IsInstance(e, cls) == e = cls \/ \E b \in Bases(e) : IsInstance(b, cls)

Statuses == {200, 201, 399, 400, 404, 503, 599}

Responses == [status : Statuses, body : Bodies]

Outcomes == [exc : Exceptions] \cup Responses

IsResponse(o) == "status" \in DOMAIN o

\* Only 4xx treated as an error status.
RaisesForStatus_ClientErrorsOnly(status) == 400 <= status /\ status < 500

\* response.raise_for_status(): HTTPError for 4xx and 5xx.
RaisesForStatus(status) == 400 <= status /\ status < 600

\* response.json() raising the json module's JSONDecodeError, a ValueError
\* and no RequestException.
Raised_PlainValueError(o) ==
    IF ~IsResponse(o) THEN o.exc
    ELSE IF RaisesForStatus(o.status) THEN "HTTPError"
    ELSE IF ~IsJson(o.body) THEN "ValueError"
    ELSE "none"

\* The exception the try body raises on outcome o, "none" when it reaches
\* its return statement.
Raised(o) ==
    IF ~IsResponse(o) THEN o.exc
    ELSE IF RaisesForStatus(o.status) THEN "HTTPError"
    ELSE IF ~IsJson(o.body) THEN "JSONDecodeError"
    ELSE "none"

\* The chain without its last clause, except RequestException.
Handler_NoRequestClause(e) ==
    IF IsInstance(e, "ConnectionError") \/ IsInstance(e, "Timeout") THEN "network"
    ELSE IF IsInstance(e, "HTTPError") THEN "http"
    ELSE "uncaught"

\* The except clause that handles exception e, clauses tried in order.
Handler(e) ==
    IF IsInstance(e, "ConnectionError") \/ IsInstance(e, "Timeout") THEN "network"
    ELSE IF IsInstance(e, "HTTPError") THEN "http"
    ELSE IF IsInstance(e, "RequestException") THEN "request"
    ELSE "uncaught"

(***************************************************************************)
(* Text typed at the console: a line is a sequence of characters.          *)
(***************************************************************************)
Whitespace == {" ", "\t"}

\* str.strip(): the line without its leading and trailing whitespace.
RECURSIVE LStrip(_)
LStrip(s) ==
    IF s # <<>> /\ Head(s) \in Whitespace THEN LStrip(Tail(s)) ELSE s

RECURSIVE RStrip(_)
RStrip(s) ==
    IF s # <<>> /\ s[Len(s)] \in Whitespace
      THEN RStrip(SubSeq(s, 1, Len(s) - 1))
      ELSE s

Strip(s) == RStrip(LStrip(s))

\* str.lower(), on the letters the typed lines use.
LowerChar(c) ==
    CASE c = "B" -> "b"
      [] c = "D" -> "d"
      [] c = "F" -> "f"
      [] c = "L" -> "l"
      [] c = "T" -> "t"
      [] OTHER -> c

Lower(s) == [i \in DOMAIN s |-> LowerChar(s[i])]

\* str.split(sep): the pieces between the separators.
RECURSIVE Split(_, _)
Split(s, sep) ==
    IF \A i \in DOMAIN s : s[i] # sep THEN <<s>>
    ELSE LET k == CHOOSE i \in DOMAIN s :
                    s[i] = sep /\ \A j \in 1..(i - 1) : s[j] # sep
         IN  <<SubSeq(s, 1, k - 1)>> \o Split(SubSeq(s, k + 1, Len(s)), sep)

\* [c.strip() for c in coins_input.split(",") if c.strip()]
RECURSIVE StripNonEmpty(_)
StripNonEmpty(parts) ==
    IF parts = <<>> THEN <<>>
    ELSE (IF Strip(Head(parts)) # <<>> THEN <<Strip(Head(parts))>> ELSE <<>>)
         \o StripNonEmpty(Tail(parts))

\* The keys of the CITIES dictionary.
CITIES ==
    {<<"d", "e", "l", "h", "i">>,
     <<"m", "u", "m", "b", "a", "i">>,
     <<"b", "a", "n", "g", "a", "l", "o", "r", "e">>,
     <<"c", "h", "e", "n", "n", "a", "i">>,
     <<"k", "o", "l", "k", "a", "t", "a">>,
     <<"h", "y", "d", "e", "r", "a", "b", "a", "d">>,
     <<"n", "e", "w", " ", "y", "o", "r", "k">>,
     <<"l", "o", "n", "d", "o", "n">>,
     <<"t", "o", "k", "y", "o">>,
     <<"s", "y", "d", "n", "e", "y">>,
     <<"p", "a", "r", "i", "s">>,
     <<"b", "e", "r", "l", "i", "n">>,
     <<"d", "u", "b", "a", "i">>,
     <<"s", "i", "n", "g", "a", "p", "o", "r", "e">>,
     <<"t", "o", "r", "o", "n", "t", "o">>,
     <<"s", "a", "n", " ", "f", "r", "a", "n", "c", "i", "s", "c", "o">>,
     <<"m", "o", "s", "c", "o", "w">>,
     <<"b", "e", "i", "j", "i", "n", "g">>,
     <<"r", "i", "o", " ", "d", "e", " ", "j", "a", "n", "e", "i", "r", "o">>,
     <<"c", "a", "p", "e", " ", "t", "o", "w", "n">>}

(***************************************************************************)
(* Python values at run time: the evaluation of an expression either       *)
(* yields a value or raises an exception.                                  *)
(***************************************************************************)
Val(v) == [val |-> v]
Exc(e) == [exc |-> e]
IsExc(r) == "exc" \in DOMAIN r

\* bool(v): None, 0, "", {} and [] are false.
Truthy(v) ==
    CASE v.t = "null" -> FALSE
      [] v.t = "num" -> v.n # 0
      [] v.t = "str" -> v.s # ""
      [] v.t = "obj" -> DOMAIN v.o # {}
      [] v.t = "arr" -> v.a # <<>>

\* r[key] with a string key: KeyError on a dict without the key, TypeError
\* on anything that is not a dict.
Sub(r, key) ==
    IF IsExc(r) THEN r
    ELSE IF r.val.t = "obj"
      THEN IF key \in DOMAIN r.val.o THEN Val(r.val.o[key]) ELSE Exc("KeyError")
      ELSE Exc("TypeError")

\* r[0]: the first element of a list; KeyError on a dict, which has no key 0.
First(r) ==
    IF IsExc(r) THEN r
    ELSE IF r.val.t = "arr"
      THEN IF r.val.a # <<>> THEN Val(r.val.a[1]) ELSE Exc("IndexError")
      ELSE IF r.val.t = "obj" THEN Exc("KeyError")
      ELSE Exc("TypeError")

\* r.get(key, default): only a dict has get.
DictGet(r, key, default) ==
    IF IsExc(r) THEN r
    ELSE IF r.val.t = "obj"
      THEN IF key \in DOMAIN r.val.o THEN Val(r.val.o[key]) ELSE Val(default)
      ELSE Exc("AttributeError")

\* format(r, ",.2f") and the other float formats: a number is needed.
FmtFloat(r) ==
    IF IsExc(r) THEN r
    ELSE IF r.val.t = "num" THEN r
    ELSE IF r.val.t = "str" THEN Exc("ValueError")
    ELSE Exc("TypeError")

\* format(r, "<15"), a width and alignment: numbers and strings take it.
FmtAlign(r) ==
    IF IsExc(r) THEN r
    ELSE IF r.val.t \in {"num", "str"} THEN r
    ELSE Exc("TypeError")

\* r.title(): only a string has title.
StrTitle(r) ==
    IF IsExc(r) THEN r
    ELSE IF r.val.t = "str" THEN r
    ELSE Exc("AttributeError")

\* The exception of the first evaluation that raises, "none" when none does.
FirstExc(rs) ==
    LET bad == {i \in DOMAIN rs : IsExc(rs[i])}
    IN  IF bad = {} THEN "none"
        ELSE rs[CHOOSE i \in bad : \A j \in bad : i <= j].exc

(***************************************************************************)
(* part5_real_api.py: the functions behind the dashboard's menu.  Each is  *)
(* an operator from what the user typed and what the server answered to    *)
(* what the call did: exc, the exception that left it ("none" when it      *)
(* returned), http, the requests it issued, out, the messages it printed.  *)
(***************************************************************************)
\* The name last_post_data is not in globals().
Absent == [absent |-> TRUE]

\* try: requests.get / raise_for_status / return response.json()
\* except requests.RequestException: print the error, return None
Fetch(o) ==
    LET e == Raised(o)
    IN  IF e = "none" THEN [data |-> Loads(o.body), exc |-> "none", failed |-> FALSE]
        ELSE IF IsInstance(e, "RequestException")
          THEN [data |-> JNull, exc |-> "none", failed |-> TRUE]
          ELSE [data |-> JNull, exc |-> e, failed |-> TRUE]

get_weather(city_name, o) ==
    LET city_lower == Strip(Lower(city_name))
        f == Fetch(o)
    IN  IF city_lower \notin CITIES
          THEN [data |-> JNull, exc |-> "none", http |-> 0, out |-> <<"City not found.">>]
          ELSE [data |-> f.data, exc |-> f.exc, http |-> 1,
                out |-> IF f.failed /\ f.exc = "none"
                          THEN <<"Error fetching weather">> ELSE <<>>]

\* The function without its test of the key: the request is sent with
\* appid = None.
get_openweather_NoKeyCheck(key, city_name, o) ==
    LET f == Fetch(o)
    IN  [data |-> f.data, exc |-> f.exc, http |-> 1,
         out |-> IF f.failed /\ f.exc = "none"
                   THEN <<"Error fetching OpenWeatherMap data">> ELSE <<>>]

get_openweather(key, city_name, o) ==
    LET f == Fetch(o)
    IN  IF ~key
          THEN [data |-> JNull, exc |-> "none", http |-> 0, out |-> <<"No API key provided.">>]
          ELSE [data |-> f.data, exc |-> f.exc, http |-> 1,
                out |-> IF f.failed /\ f.exc = "none"
                          THEN <<"Error fetching OpenWeatherMap data">> ELSE <<>>]

get_crypto_price(coin_name, o) ==
    LET f == Fetch(o)
    IN  [data |-> f.data, exc |-> f.exc, http |-> 1,
         out |-> IF f.failed /\ f.exc = "none"
                   THEN <<"Error fetching crypto data">> ELSE <<>>]

get_top_cryptos(o) ==
    LET f == Fetch(o)
    IN  [data |-> f.data, exc |-> f.exc, http |-> 1,
         out |-> IF f.failed /\ f.exc = "none" THEN <<"Error">> ELSE <<>>]

\* weather_codes.get(code, "Unknown"): the key must be hashable.
Hashable(r) ==
    IF IsExc(r) THEN r
    ELSE IF r.val.t \in {"obj", "arr"} THEN Exc("TypeError")
    ELSE r

display_weather(city_name, o) ==
    LET g == get_weather(city_name, o)
        current == Sub(Val(g.data), "current_weather")
        e == FirstExc(<<current,
                        Sub(current, "temperature"),
                        Sub(current, "windspeed"),
                        Sub(current, "winddirection"),
                        Hashable(DictGet(current, "weathercode", JNum(0)))>>)
    IN  IF g.exc # "none" \/ ~Truthy(g.data)
          THEN [exc |-> g.exc, http |-> g.http, out |-> g.out]
          ELSE [exc |-> e, http |-> g.http,
                out |-> IF e = "none" THEN <<"weather report">> ELSE <<>>]

display_openweather(key, city_name, o) ==
    LET g == get_openweather(key, city_name, o)
        data == Val(g.data)
        main == DictGet(data, "main", JObj(<<>>))
        wind == DictGet(data, "wind", JObj(<<>>))
        weather_list == DictGet(data, "weather", JArr(<<>>))
        condition == IF IsExc(weather_list) THEN weather_list
                     ELSE IF Truthy(weather_list.val)
                       THEN Sub(First(weather_list), "description")
                       ELSE Val(JStr("Unknown"))
        e == FirstExc(<<main, wind, weather_list, condition,
                        DictGet(main, "temp", JStr("N/A")),
                        DictGet(main, "humidity", JStr("N/A")),
                        DictGet(wind, "speed", JStr("N/A")),
                        StrTitle(condition)>>)
    IN  IF g.exc # "none" \/ ~Truthy(g.data)
          THEN [exc |-> g.exc, http |-> g.http, out |-> g.out]
          ELSE [exc |-> e, http |-> g.http,
                out |-> IF e = "none" THEN <<"openweather report">> ELSE <<>>]

display_crypto(coin_name, o) ==
    LET g == get_crypto_price(coin_name, o)
        data == Val(g.data)
        usd == Sub(Sub(data, "quotes"), "USD")
        e == FirstExc(<<usd,
                        Sub(data, "name"),
                        Sub(data, "symbol"),
                        FmtFloat(Sub(usd, "price")),
                        FmtFloat(Sub(usd, "market_cap")),
                        FmtFloat(Sub(usd, "volume_24h")),
                        FmtFloat(Sub(usd, "percent_change_1h")),
                        FmtFloat(Sub(usd, "percent_change_24h")),
                        FmtFloat(Sub(usd, "percent_change_7d"))>>)
    IN  IF g.exc # "none" THEN [exc |-> g.exc, http |-> g.http, out |-> g.out]
        ELSE IF ~Truthy(g.data)
          THEN [exc |-> "none", http |-> g.http, out |-> g.out \o <<"Coin not found.">>]
          ELSE [exc |-> e, http |-> g.http,
                out |-> IF e = "none" THEN <<"crypto report">> ELSE <<>>]

\* One row of display_top_cryptos.
TopRow(coin) ==
    LET usd == Sub(Sub(Val(coin), "quotes"), "USD")
        e == FirstExc(<<usd,
                        FmtFloat(Sub(usd, "percent_change_24h")),
                        FmtAlign(Sub(Val(coin), "rank")),
                        FmtAlign(Sub(Val(coin), "name")),
                        FmtFloat(Sub(usd, "price"))>>)
    IN  IF e = "none" THEN Val(coin) ELSE Exc(e)

\* for coin in data: a list yields its elements; a dict or a string yields
\* strings, and a string takes no key; a number is not iterable.
display_top_cryptos(o) ==
    LET g == get_top_cryptos(o)
        e == IF g.data.t = "arr"
               THEN FirstExc([i \in DOMAIN g.data.a |-> TopRow(g.data.a[i])])
               ELSE "TypeError"
    IN  IF g.exc # "none" \/ ~Truthy(g.data)
          THEN [exc |-> g.exc, http |-> g.http, out |-> g.out]
          ELSE [exc |-> e, http |-> g.http,
                out |-> IF e = "none" THEN <<"top 5 table">> ELSE <<>>]

\* One coin of compare_cryptos: the exception that leaves the loop body.
CompareRow(coin, o) ==
    LET g == get_crypto_price(coin, o)
        data == Val(g.data)
        usd == Sub(Sub(data, "quotes"), "USD")
        price == Sub(usd, "price")
        change_24h == Sub(usd, "percent_change_24h")
        e == FirstExc(<<usd, price, change_24h,
                        FmtAlign(Sub(data, "symbol")),
                        FmtFloat(price),
                        FmtFloat(change_24h)>>)
    IN  IF g.exc # "none" THEN g.exc
        ELSE IF g.data = JNull THEN "none"
        ELSE IF IsInstance(e, "KeyError") THEN "none"
        ELSE e

\* os[i] is the server's answer to the request for coin_list[i].
compare_cryptos(coin_list, os) ==
    LET bad == {i \in DOMAIN coin_list : CompareRow(coin_list[i], os[i]) # "none"}
        stop == IF bad = {} THEN Len(coin_list)
                ELSE CHOOSE i \in bad : \A j \in bad : i <= j
    IN  [exc |-> IF bad = {} THEN "none" ELSE CompareRow(coin_list[stop], os[stop]),
         http |-> stop,
         out |-> IF bad = {} THEN <<"comparison table">> ELSE <<>>]

\* The POST sent a second time when the first attempt fails.
create_post_RetryOnce(slot, title_line, body_line, o) ==
    LET title == Strip(title_line)
        body == Strip(body_line)
        e == Raised(o)
    IN  IF title = <<>> \/ body = <<>>
          THEN [exc |-> "none", http |-> 0, slot |-> slot,
                out |-> <<"Title and body cannot be empty.">>]
        ELSE IF e = "none"
          THEN [exc |-> "none", http |-> 1, slot |-> Loads(o.body),
                out |-> <<"Post successfully created!">>]
          ELSE [exc |-> "none", http |-> 2, slot |-> slot,
                out |-> <<"Failed to create post">>]

\* slot is last_post_data before the call; the result carries it after.
create_post(slot, title_line, body_line, o) ==
    LET title == Strip(title_line)
        body == Strip(body_line)
        e == Raised(o)
        data == Val(Loads(o.body))
        p == FirstExc(<<DictGet(data, "id", JNull),
                        DictGet(data, "title", JNull),
                        DictGet(data, "body", JNull)>>)
    IN  IF title = <<>> \/ body = <<>>
          THEN [exc |-> "none", http |-> 0, slot |-> slot,
                out |-> <<"Title and body cannot be empty.">>]
        ELSE IF e = "none"
          THEN [exc |-> p, http |-> 1, slot |-> Loads(o.body),
                out |-> IF p = "none" THEN <<"Post successfully created!">> ELSE <<>>]
        ELSE IF IsInstance(e, "RequestException")
          THEN [exc |-> "none", http |-> 1, slot |-> slot,
                out |-> <<"Failed to create post">>]
          ELSE [exc |-> e, http |-> 1, slot |-> slot, out |-> <<>>]

\* opened: whether open(filename, "w") succeeds.  written: the files the
\* call wrote, with the data dumped into each.
save_to_json(data, filename, opened) ==
    IF ~Truthy(data) THEN [written |-> <<>>, out |-> <<"No data to save.">>]
    ELSE IF opened
      THEN [written |-> <<[name |-> filename, data |-> data]>>,
            out |-> <<"Data successfully saved">>]
      ELSE [written |-> <<>>, out |-> <<"Failed to save data">>]

\* The test of the global left out: the slot is handed to save_to_json as is.
save_last_post_Unchecked(slot, opened) ==
    save_to_json(IF slot = Absent THEN JNull ELSE slot, <<"l", "a", "s", "t", "_", "p", "o", "s", "t", ".", "j", "s", "o", "n">>, opened)

\* if 'last_post_data' in globals(): save it, else say there is none.
save_last_post(slot, opened) ==
    IF slot # Absent
      THEN save_to_json(slot, <<"l", "a", "s", "t", "_", "p", "o", "s", "t", ".", "j", "s", "o", "n">>, opened)
      ELSE [written |-> <<>>, out |-> <<"No POST data available to save.">>]

(***************************************************************************)
(* Return values of safe_api_request.                                      *)
(***************************************************************************)
Pending == [pending |-> TRUE]
NoneValue == [none |-> TRUE]
Success(data) == [success |-> TRUE, data |-> data]
Failure(error) == [success |-> FALSE, error |-> error]

\* result["success"] in a caller: None takes no subscript.
ReadSuccess(res) ==
    IF res = NoneValue THEN [exc |-> "TypeError", val |-> FALSE]
    ELSE [exc |-> "none", val |-> res.success]

FailedAfterMsg(n) == [msg |-> "Failed after {retries} attempts", n |-> n]
HttpErrorMsg(status) == [msg |-> "HTTP Error: {status}", status |-> status]
RequestFailedMsg(e) == [msg |-> "Request failed: {e}", e |-> e]

\* time.sleep(2)
BackoffSeconds == 2

(***************************************************************************)
(* part4_error_handling.py: safe_api_request                               *)
(***************************************************************************)
XInit ==
    /\ xpc = "idle"
    /\ retries = 0
    /\ attempt = 0
    /\ gets = 0
    /\ sleptAfter = {}
    /\ waited = 0
    /\ trace = <<>>
    /\ result = Pending

\* The call: retries is bound to the argument.
Call ==
    /\ xpc = "idle"
    /\ \E n \in (0 - 1)..MaxRetries : retries' = n
    /\ xpc' = "loop"
    /\ UNCHANGED <<attempt, gets, sleptAfter, waited, trace, result>>
    /\ UNCHANGED dvars

\* range(1, retries) in place of range(1, retries + 1).
InLoop_RangeExcludesLast == xpc = "loop" /\ attempt < retries - 1

\* for attempt in range(1, retries + 1): another iteration remains.
InLoop == xpc = "loop" /\ attempt < retries

\* The comparison made against a zero-based attempt number.
IsLastAttempt_ZeroBased(a) == a - 1 = retries

\* if attempt == retries
IsLastAttempt(a) == a = retries

\* The GET of this iteration produced o.
Issue(o) ==
    /\ attempt' = attempt + 1
    /\ gets' = gets + 1
    /\ trace' = Append(trace, o)

\* The success branch logs and goes round the loop again instead of returning.
AttemptSucceeds_NoReturn ==
    /\ InLoop
    /\ \E o \in Responses :
        /\ Raised(o) = "none"
        /\ Issue(o)
        /\ result' = Success(Loads(o.body))
    /\ UNCHANGED <<xpc, retries, sleptAfter, waited>>
    /\ UNCHANGED dvars

\* The try body ran to its return.
AttemptSucceeds ==
    /\ InLoop
    /\ \E o \in Responses :
        /\ Raised(o) = "none"
        /\ Issue(o)
        /\ result' = Success(Loads(o.body))
    /\ xpc' = "returned"
    /\ UNCHANGED <<retries, sleptAfter, waited>>
    /\ UNCHANGED dvars

\* except (ConnectionError, Timeout)
AttemptNetworkIssue ==
    /\ InLoop
    /\ \E o \in Outcomes :
        /\ Raised(o) # "none"
        /\ Handler(Raised(o)) = "network"
        /\ Issue(o)
    /\ IF IsLastAttempt(attempt + 1)
         THEN /\ result' = Failure(FailedAfterMsg(retries))
              /\ xpc' = "returned"
              /\ UNCHANGED <<sleptAfter, waited>>
         ELSE /\ sleptAfter' = sleptAfter \cup {attempt + 1}
              /\ waited' = waited + BackoffSeconds
              /\ UNCHANGED <<xpc, result>>
    /\ UNCHANGED retries
    /\ UNCHANGED dvars

\* except HTTPError
AttemptHTTPError ==
    /\ InLoop
    /\ \E o \in Outcomes :
        /\ Raised(o) # "none"
        /\ Handler(Raised(o)) = "http"
        /\ Issue(o)
        /\ result' = Failure(HttpErrorMsg(o.status))
    /\ xpc' = "returned"
    /\ UNCHANGED <<retries, sleptAfter, waited>>
    /\ UNCHANGED dvars

\* except RequestException
AttemptRequestException ==
    /\ InLoop
    /\ \E o \in Outcomes :
        /\ Raised(o) # "none"
        /\ Handler(Raised(o)) = "request"
        /\ Issue(o)
        /\ result' = Failure(RequestFailedMsg(Raised(o)))
    /\ xpc' = "returned"
    /\ UNCHANGED <<retries, sleptAfter, waited>>
    /\ UNCHANGED dvars

\* No except clause matches: the exception leaves safe_api_request.
AttemptUncaught ==
    /\ InLoop
    /\ \E o \in Outcomes :
        /\ Raised(o) # "none"
        /\ Handler(Raised(o)) = "uncaught"
        /\ Issue(o)
    /\ xpc' = "raised"
    /\ UNCHANGED <<retries, sleptAfter, waited, result>>
    /\ UNCHANGED dvars

\* A return of the failure record after the loop.
LoopExhausted_ReturnsFailure ==
    /\ xpc = "loop"
    /\ ~InLoop
    /\ result' = Failure(FailedAfterMsg(retries))
    /\ xpc' = "returned"
    /\ UNCHANGED <<retries, attempt, gets, sleptAfter, waited, trace>>
    /\ UNCHANGED dvars

\* The for loop ran out of iterations: the function falls off its end.
LoopExhausted ==
    /\ xpc = "loop"
    /\ ~InLoop
    /\ result' = NoneValue
    /\ xpc' = "returned"
    /\ UNCHANGED <<retries, attempt, gets, sleptAfter, waited, trace>>
    /\ UNCHANGED dvars

(***************************************************************************)
(* part4_error_handling.py: fetch_crypto_safely, a caller of                *)
(* safe_api_request.                                                       *)
(***************************************************************************)
\* key in r: a dict is asked for the key, a list for an element and a string
\* for a substring (none of those the lists and strings here have); None
\* and numbers are no containers.
Contains(r, key) ==
    IF IsExc(r) THEN r
    ELSE IF r.val.t = "obj" THEN [in |-> key \in DOMAIN r.val.o]
    ELSE IF r.val.t \in {"arr", "str"} THEN [in |-> FALSE]
    ELSE Exc("TypeError")

\* The pair (is_valid, error) of validate_crypto_response; a TypeError or
\* nothing else is caught.
validate_crypto_response(data) ==
    LET d == Val(data)
        q == Sub(d, "quotes")
        usd == Sub(q, "USD")
        hasQuotes == Contains(d, "quotes")
        hasUSD == Contains(q, "USD")
        hasPrice == Contains(usd, "price")
        hasChange == Contains(usd, "percent_change_24h")
        caught(r) == IsExc(r) /\ r.exc = "TypeError"
    IN  IF caught(hasQuotes) THEN [valid |-> FALSE, error |-> "Invalid response format"]
        ELSE IF ~hasQuotes.in THEN [valid |-> FALSE, error |-> "Missing quotes/USD data"]
        ELSE IF caught(hasUSD) THEN [valid |-> FALSE, error |-> "Invalid response format"]
        ELSE IF ~hasUSD.in THEN [valid |-> FALSE, error |-> "Missing quotes/USD data"]
        ELSE IF caught(hasPrice) THEN [valid |-> FALSE, error |-> "Invalid response format"]
        ELSE IF ~hasPrice.in THEN [valid |-> FALSE, error |-> "Missing field in USD data"]
        ELSE IF ~hasChange.in THEN [valid |-> FALSE, error |-> "Missing field in USD data"]
        ELSE [valid |-> TRUE, error |-> "None"]

\* What safe_api_request(url) returns with its default of three retries.
SafeResults ==
    {Success(Loads(b)) : b \in JsonTexts}
        \cup {Failure(FailedAfterMsg(3))}
        \cup {Failure(HttpErrorMsg(st)) : st \in {404, 503}}
        \cup {Failure(RequestFailedMsg(e)) : e \in {"TooManyRedirects", "JSONDecodeError"}}

\* Lines typed at the prompt of fetch_crypto_safely.
SafeCoinInputs == {<<"B", "T", "c", "-", "b", "i", "t", "c", "o", "i", "n">>, <<" ">>, <<>>}

\* typed is the line read; res is what safe_api_request returns when it is
\* called.  calls counts the calls of safe_api_request.
fetch_crypto_safely(typed, res) ==
    LET coin == Lower(Strip(typed))
        data == Val(res.data)
        usd == Sub(Sub(data, "quotes"), "USD")
        e == FirstExc(<<usd, Sub(data, "name"), Sub(data, "symbol"),
                        FmtFloat(Sub(usd, "price")),
                        FmtFloat(Sub(usd, "percent_change_24h"))>>)
    IN  IF coin = <<>>
          THEN [exc |-> "none", calls |-> 0, out |-> <<"Error: Please enter a coin name.">>]
        ELSE IF ~res.success
          THEN [exc |-> "none", calls |-> 1, out |-> <<"Error", "Tip">>]
        ELSE IF ~validate_crypto_response(res.data).valid
          THEN [exc |-> "none", calls |-> 1, out |-> <<"Invalid crypto data">>]
          ELSE [exc |-> e, calls |-> 1,
                out |-> IF e = "none" THEN <<"crypto report">> ELSE <<>>]

(***************************************************************************)
(* part3_user_input.py: the functions behind main()'s menu.  In each, the  *)
(* try block holds the request and the printing of the answer, and only    *)
(* requests.RequestException is handled.                                   *)
(***************************************************************************)
\* Characters for which str.isdigit() holds: the decimal digits and digits
\* such as the superscript two, which int() does not accept.
DecimalChars == {"0", "1", "2", "3", "4", "5", "6", "7", "8", "9"}
DigitChars == DecimalChars \cup {"²"}

\* str.isdigit()
IsDigit(s) == s # <<>> /\ \A i \in DOMAIN s : s[i] \in DigitChars

DigitValue(c) ==
    CASE c = "0" -> 0 [] c = "1" -> 1 [] c = "2" -> 2 [] c = "3" -> 3
      [] c = "4" -> 4 [] c = "5" -> 5 [] c = "6" -> 6 [] c = "7" -> 7
      [] c = "8" -> 8 [] c = "9" -> 9

\* int(s) for a string of decimal digits.
RECURSIVE IntOf(_)
IntOf(s) ==
    IF s = <<>> THEN 0
    ELSE 10 * IntOf(SubSeq(s, 1, Len(s) - 1)) + DigitValue(s[Len(s)])

\* not user_id.isdigit() or not (1 <= int(user_id) <= 10): "reject", "accept",
\* or the ValueError of int() on a digit that is no decimal.
CheckUserId(user_id) ==
    IF ~IsDigit(user_id) THEN "reject"
    ELSE IF \E i \in DOMAIN user_id : user_id[i] \notin DecimalChars THEN "ValueError"
    ELSE IF 1 <= IntOf(user_id) /\ IntOf(user_id) <= 10 THEN "accept"
    ELSE "reject"

\* The try block of a part 3 function: the request, then the expressions
\* printed from its answer; shown is the exception they raise, "none" when
\* all of them evaluate.  failed is the message of the except clause.
TryRequest(o, shown, done, failed) ==
    LET e == Raised(o)
    IN  IF e = "none"
          THEN [exc |-> shown, http |-> 1,
                out |-> IF shown = "none" THEN <<done>> ELSE <<>>]
        ELSE IF IsInstance(e, "RequestException")
          THEN [exc |-> "none", http |-> 1, out |-> <<failed>>]
          ELSE [exc |-> e, http |-> 1, out |-> <<>>]

Rejected(msg) == [exc |-> "none", http |-> 0, out |-> <<msg>>]

ShowUser(data) ==
    FirstExc(<<Sub(Val(data), "name"), Sub(Val(data), "email"),
               Sub(Val(data), "phone"), Sub(Val(data), "website")>>)

get_user_info(typed, o) ==
    LET user_id == typed
        c == CheckUserId(user_id)
    IN  IF c = "reject" THEN Rejected("User ID must be a number!")
        ELSE IF c # "accept" THEN [exc |-> c, http |-> 0, out |-> <<>>]
        ELSE TryRequest(o, ShowUser(Loads(o.body)), "user info", "User not found!")

\* for ... in enumerate(items): item['title'].  Iterating a dict or a string
\* yields strings, which take no string key; len() and iteration need a
\* container.
ShowTitles(items) ==
    IF items.t = "arr"
      THEN FirstExc([i \in DOMAIN items.a |-> Sub(Val(items.a[i]), "title")])
      ELSE IF items.t = "str" /\ items.s = "" THEN "none"
      ELSE "TypeError"

ShowPosts(items) == IF Truthy(items) THEN ShowTitles(items) ELSE "none"

search_posts(typed, o) ==
    LET user_id == Strip(typed)
        c == CheckUserId(user_id)
    IN  IF c = "reject" THEN Rejected("User ID must be numeric!")
        ELSE IF c # "accept" THEN [exc |-> c, http |-> 0, out |-> <<>>]
        ELSE TryRequest(o, ShowPosts(Loads(o.body)), "posts", "Error fetching posts.")

ShowPrice(data) ==
    LET usd == Sub(Sub(Val(data), "quotes"), "USD")
        price_usd == Sub(usd, "price")
        change_24h == Sub(usd, "percent_change_24h")
    IN  FirstExc(<<price_usd, change_24h, Sub(Val(data), "name"),
                   Sub(Val(data), "symbol"), FmtFloat(price_usd), FmtFloat(change_24h)>>)

get_crypto_price3(typed, o) ==
    TryRequest(o, ShowPrice(Loads(o.body)), "price", "Coin not found!")

search_todos(typed, o) ==
    LET status == Strip(Lower(typed))
    IN  IF status \notin {<<"t", "r", "u", "e">>, <<"f", "a", "l", "s", "e">>} THEN Rejected("Invalid status!")
        ELSE TryRequest(o, ShowTitles(Loads(o.body)), "todos", "Could not fetch todos.")

ShowWeather(data) ==
    LET weather == Sub(Val(data), "current_weather")
    IN  FirstExc(<<weather, Sub(weather, "temperature"), Sub(weather, "windspeed")>>)

\* The keys of city_coords.
city_coords == {<<"d", "e", "l", "h", "i">>, <<"m", "u", "m", "b", "a", "i">>, <<"l", "o", "n", "d", "o", "n">>, <<"n", "e", "w", " ", "y", "o", "r", "k">>}

get_weather3(typed, o) ==
    LET city == Strip(Lower(typed))
    IN  IF city \notin city_coords THEN Rejected("City not available!")
        ELSE TryRequest(o, ShowWeather(Loads(o.body)), "weather", "Could not fetch weather data.")

(***************************************************************************)
(* The menu loops: dashboard() of part5_real_api.py and main() of          *)
(* part3_user_input.py.                                                    *)
(***************************************************************************)
\* Lines the user types at the menu prompt.
RawChoices ==
    {<<"1">>, <<"2">>, <<"3">>, <<"4">>, <<"5">>, <<"6">>, <<"7">>, <<"8">>, <<"9">>, <<" ", "9", " ">>, <<"6", " ">>, <<"0">>, <<>>}

\* What the servers answer to the dashboard's requests.
DashOutcomes ==
    [exc : {"ConnectionError", "Timeout"}]
        \cup [status : {200}, body : Bodies]
        \cup [status : {404}, body : {"<html>"}]

\* The labels of the printed menu.
MenuKeys5 == {<<"1">>, <<"2">>, <<"3">>, <<"4">>, <<"5">>, <<"6">>, <<"7">>, <<"8">>, <<"9">>}

MenuKeys3 == {<<"1">>, <<"2">>, <<"3">>, <<"4">>, <<"5">>, <<"6">>}

MenuKeys(p) == IF p = "part5" THEN MenuKeys5 ELSE MenuKeys3

UserIdInputs == {<<"1">>, <<"1", "0">>, <<"1", "1">>, <<"0">>, <<"x">>, <<>>, <<" ", "5">>, <<"²">>}
StatusInputs == {<<"t", "r", "u", "e">>, <<" ", "F", "a", "l", "s", "e", " ">>, <<"m", "a", "y", "b", "e">>}

CityInputs == {<<"d", "e", "l", "h", "i">>, <<" ", "D", "e", "l", "h", "i", " ">>, <<"a", "t", "l", "a", "n", "t", "i", "s">>, <<>>}
CoinInputs == {<<"b", "i", "t", "c", "o", "i", "n">>, <<" ">>}
CompareInputs == {<<"b", "i", "t", "c", "o", "i", "n", ",", "e", "t", "h", "-", "e", "t", "h", "e", "r", "e", "u", "m">>, <<"b", "i", "t", "c", "o", "i", "n">>, <<" ", ",", " ">>, <<>>}
TitleInputs == {<<"t">>, <<" ">>, <<>>}
BodyInputs == {<<"b">>, <<>>}
SaveCoinInputs == {<<" ", "b", "i", "t", "c", "o", "i", "n">>}
SaveCityInputs == {<<"d", "e", "l", "h", "i">>, <<"a", "t", "l", "a", "n", "t", "i", "s">>}
SubChoiceInputs == {<<"1">>, <<"2">>, <<"3">>, <<" ", "3", " ">>, <<"4">>, <<>>}

\* The chain without its elif choice == "8".
Branch5_NoOpenWeather(c) ==
    CASE c = <<"1">> -> "weather"
      [] c = <<"2">> -> "crypto"
      [] c = <<"3">> -> "top"
      [] c = <<"4">> -> "quick"
      [] c = <<"5">> -> "compare"
      [] c = <<"6">> -> "create"
      [] c = <<"7">> -> "save"
      [] c = <<"9">> -> "exit"
      [] OTHER -> "invalid"

\* The if/elif chain of dashboard(): the branch a trimmed choice takes.
Branch5(c) ==
    CASE c = <<"1">> -> "weather"
      [] c = <<"2">> -> "crypto"
      [] c = <<"3">> -> "top"
      [] c = <<"4">> -> "quick"
      [] c = <<"5">> -> "compare"
      [] c = <<"6">> -> "create"
      [] c = <<"7">> -> "save"
      [] c = <<"8">> -> "openweather"
      [] c = <<"9">> -> "exit"
      [] OTHER -> "invalid"

\* The if/elif chain of main().
Branch3(c) ==
    CASE c = <<"1">> -> "user_info"
      [] c = <<"2">> -> "search_posts"
      [] c = <<"3">> -> "crypto_price"
      [] c = <<"4">> -> "search_todos"
      [] c = <<"5">> -> "weather3"
      [] c = <<"6">> -> "exit"
      [] OTHER -> "invalid"

Branch(p, c) == IF p = "part5" THEN Branch5(c) ELSE Branch3(c)

DInit ==
    /\ pc = "Prompting"
    /\ action = "none"
    /\ choice = <<>>
    /\ iterations = 0
    /\ unknownRead = 0
    /\ dispatched = 0
    /\ invalidMsgs = 0
    /\ http = 0
    /\ posts = 0
    /\ written = <<>>
    /\ sub_choice = <<>>
    /\ last_post_data = Absent
    /\ created = FALSE
    /\ lines = <<>>
    /\ keyMsgs = 0
    /\ returned = Absent
    /\ out = <<>>
    /\ crashedWith = "none"
    /\ crashedOn = <<>>

\* OPENWEATHER_API_KEY = os.environ.get(...), and the warning printed at
\* import when it is not set.
DashInit ==
    /\ XInit
    /\ DInit
    /\ prog \in {"part3", "part5"}
    /\ apiKey \in (IF prog = "part5" THEN BOOLEAN ELSE {FALSE})
    /\ warnings = IF prog = "part5" /\ ~apiKey THEN 1 ELSE 0

\* The top of a loop iteration: the menu is printed and a line is read.
Prompt(raw) ==
    /\ pc = "Prompting"
    /\ iterations < MaxIterations
    /\ iterations' = iterations + 1
    /\ choice' = Strip(raw)
    /\ unknownRead' = unknownRead + (IF Strip(raw) \in MenuKeys(prog) THEN 0 ELSE 1)
    /\ http' = 0
    /\ posts' = 0
    /\ written' = <<>>
    /\ sub_choice' = <<>>
    /\ lines' = <<>>

\* The choice takes the branch of one of the menu's actions.
SelectAction ==
    /\ \E raw \in RawChoices :
        /\ Prompt(raw)
        /\ Branch(prog, Strip(raw)) \notin {"exit", "invalid"}
        /\ action' = Branch(prog, Strip(raw))
    /\ pc' = "Dispatching"
    /\ dispatched' = dispatched + 1
    /\ out' = <<>>
    /\ UNCHANGED <<prog, apiKey, warnings, invalidMsgs, last_post_data, created, returned, keyMsgs,
                   crashedWith, crashedOn>>
    /\ UNCHANGED xvars

\* The exit branch: break.
SelectExit ==
    /\ \E raw \in RawChoices :
        /\ Prompt(raw)
        /\ Branch(prog, Strip(raw)) = "exit"
    /\ pc' = "Exited"
    /\ out' = <<"Goodbye!">>
    /\ UNCHANGED <<prog, apiKey, warnings, action, dispatched, invalidMsgs,
                   last_post_data, created, returned, keyMsgs, crashedWith, crashedOn>>
    /\ UNCHANGED xvars

\* The final else: the choice is no key of the menu.
SelectInvalid ==
    /\ \E raw \in RawChoices :
        /\ Prompt(raw)
        /\ Branch(prog, Strip(raw)) = "invalid"
    /\ invalidMsgs' = invalidMsgs + 1
    /\ out' = IF prog = "part5" THEN <<"Invalid option. Try again.">>
              ELSE <<"Invalid choice. Please try again.">>
    /\ UNCHANGED <<prog, apiKey, warnings, pc, action, dispatched, last_post_data, created, returned, keyMsgs, crashedWith, crashedOn>>
    /\ UNCHANGED xvars

\* The selected function returned, or an exception left it: with no
\* try/except in dashboard() the exception ends the loop and the process.
After(r, typed, answers) ==
    /\ http' = r.http
    /\ out' = r.out
    /\ crashedWith' = r.exc
    /\ crashedOn' = IF r.exc = "none" THEN <<>> ELSE <<typed, answers>>
    /\ lines' = typed
    /\ pc' = IF r.exc = "none" THEN "Prompting" ELSE "Crashed"
    /\ action' = "none"
    /\ UNCHANGED <<prog, apiKey, warnings, choice, iterations, unknownRead, dispatched,
                   invalidMsgs>>
    /\ UNCHANGED xvars

Dispatching(a) == pc = "Dispatching" /\ action = a

\* choice == "1"
DoWeather ==
    /\ Dispatching("weather")
    /\ \E city \in CityInputs, o \in DashOutcomes : After(display_weather(city, o), <<city>>, <<o>>)
    /\ UNCHANGED <<posts, written, sub_choice, last_post_data, created, returned, keyMsgs>>

\* choice == "2"
DoCrypto ==
    /\ Dispatching("crypto")
    /\ \E coin \in CoinInputs, o \in DashOutcomes : After(display_crypto(coin, o), <<coin>>, <<o>>)
    /\ UNCHANGED <<posts, written, sub_choice, last_post_data, created, returned, keyMsgs>>

\* choice == "3"
DoTopCryptos ==
    /\ Dispatching("top")
    /\ \E o \in DashOutcomes : After(display_top_cryptos(o), <<>>, <<o>>)
    /\ UNCHANGED <<posts, written, sub_choice, last_post_data, created, returned, keyMsgs>>

\* choice == "4": display_weather("delhi"), then display_crypto("bitcoin").
DoQuick ==
    /\ Dispatching("quick")
    /\ \E o1, o2 \in DashOutcomes :
        LET w == display_weather(<<"d", "e", "l", "h", "i">>, o1)
            c == display_crypto(<<"b", "i", "t", "c", "o", "i", "n">>, o2)
        IN  After(IF w.exc # "none" THEN w
                  ELSE [exc |-> c.exc, http |-> w.http + c.http, out |-> w.out \o c.out],
                  <<>>, IF w.exc # "none" THEN <<o1>> ELSE <<o1, o2>>)
    /\ UNCHANGED <<posts, written, sub_choice, last_post_data, created, returned, keyMsgs>>

\* choice == "5"
DoCompare ==
    /\ Dispatching("compare")
    /\ \E coins_input \in CompareInputs :
        LET coins == StripNonEmpty(Split(coins_input, ","))
        IN  IF coins # <<>>
              THEN \E os \in [DOMAIN coins -> DashOutcomes] : After(compare_cryptos(coins, os), <<coins_input>>, os)
              ELSE After([exc |-> "none", http |-> 0, out |-> <<"No valid coins entered.">>],
                         <<coins_input>>, <<>>)
    /\ UNCHANGED <<posts, written, sub_choice, last_post_data, created, returned, keyMsgs>>

\* The server created the post: a title and a body were sent, and the
\* answer has a non-error status and a JSON body.
PostCreated(t, b, o) ==
    /\ Strip(t) # <<>>
    /\ Strip(b) # <<>>
    /\ IsResponse(o)
    /\ o.status < 400
    /\ o.body \in JsonTexts

\* choice == "6"
DoCreate ==
    /\ Dispatching("create")
    /\ \E t \in TitleInputs, b \in BodyInputs, o \in DashOutcomes :
        LET r == create_post(last_post_data, t, b, o)
        IN  /\ After(r, <<t, b>>, <<o>>)
            /\ last_post_data' = r.slot
            /\ created' = (created \/ PostCreated(t, b, o))
            /\ returned' = IF PostCreated(t, b, o) THEN Loads(o.body) ELSE returned
            /\ posts' = r.http
    /\ UNCHANGED <<written, sub_choice, keyMsgs>>

\* sub_choice == "1": fetch a coin and save it.
SaveCrypto(typed, o, opened) ==
    LET coin == Strip(typed)
        g == get_crypto_price(coin, o)
        s == save_to_json(g.data, coin \o <<"_", "d", "a", "t", "a", ".", "j", "s", "o", "n">>, opened)
    IN  IF g.exc # "none"
          THEN [exc |-> g.exc, http |-> g.http, out |-> g.out, written |-> <<>>]
          ELSE [exc |-> "none", http |-> g.http, out |-> g.out \o s.out,
                written |-> s.written]

\* sub_choice == "2": fetch a city's weather and save it.
SaveWeather(typed, o, opened) ==
    LET city == Strip(typed)
        g == get_weather(city, o)
        s == save_to_json(g.data, city \o <<"_", "w", "e", "a", "t", "h", "e", "r", ".", "j", "s", "o", "n">>, opened)
    IN  IF g.exc # "none"
          THEN [exc |-> g.exc, http |-> g.http, out |-> g.out, written |-> <<>>]
          ELSE [exc |-> "none", http |-> g.http, out |-> g.out \o s.out,
                written |-> s.written]

\* sub_choice == "3": save the last POST response.
SaveLast(opened) ==
    LET s == save_last_post(last_post_data, opened)
    IN  [exc |-> "none", http |-> 0, out |-> s.out, written |-> s.written]

\* The step of a save branch that ends as r.
Saved(r, typed, answers) ==
    /\ After(r, typed, answers)
    /\ written' = r.written

\* choice == "7"
DoSave ==
    /\ Dispatching("save")
    /\ \E sub \in SubChoiceInputs :
        /\ sub_choice' = Strip(sub)
        /\ CASE Strip(sub) = <<"1">> ->
                  \E typed \in SaveCoinInputs, o \in DashOutcomes, opened \in BOOLEAN :
                      Saved(SaveCrypto(typed, o, opened), <<typed>>, <<o>>)
             [] Strip(sub) = <<"2">> ->
                  \E typed \in SaveCityInputs, o \in DashOutcomes, opened \in BOOLEAN :
                      Saved(SaveWeather(typed, o, opened), <<typed>>, <<o>>)
             [] Strip(sub) = <<"3">> ->
                  \E opened \in BOOLEAN : Saved(SaveLast(opened), <<>>, <<>>)
             [] OTHER ->
                  Saved([exc |-> "none", http |-> 0, out |-> <<"Invalid choice.">>,
                         written |-> <<>>], <<>>, <<>>)
    /\ UNCHANGED <<posts, last_post_data, created, returned, keyMsgs>>

\* choice == "8"
DoOpenWeather ==
    /\ Dispatching("openweather")
    /\ \E city \in CityInputs, o \in DashOutcomes :
        LET r == display_openweather(apiKey, Strip(city), o)
        IN  /\ After(r, <<city>>, <<o>>)
            /\ keyMsgs' = keyMsgs + (IF r.out = <<"No API key provided.">> THEN 1 ELSE 0)
    /\ UNCHANGED <<posts, written, sub_choice, last_post_data, created, returned>>

\* main(): choice == "1"
DoUserInfo ==
    /\ Dispatching("user_info")
    /\ \E typed \in UserIdInputs, o \in DashOutcomes : After(get_user_info(typed, o), <<typed>>, <<o>>)
    /\ UNCHANGED <<posts, written, sub_choice, last_post_data, created, returned, keyMsgs>>

\* main(): choice == "2"
DoSearchPosts ==
    /\ Dispatching("search_posts")
    /\ \E typed \in UserIdInputs, o \in DashOutcomes : After(search_posts(typed, o), <<typed>>, <<o>>)
    /\ UNCHANGED <<posts, written, sub_choice, last_post_data, created, returned, keyMsgs>>

\* main(): choice == "3"
DoCryptoPrice ==
    /\ Dispatching("crypto_price")
    /\ \E typed \in CoinInputs, o \in DashOutcomes : After(get_crypto_price3(typed, o), <<typed>>, <<o>>)
    /\ UNCHANGED <<posts, written, sub_choice, last_post_data, created, returned, keyMsgs>>

\* main(): choice == "4"
DoSearchTodos ==
    /\ Dispatching("search_todos")
    /\ \E typed \in StatusInputs, o \in DashOutcomes : After(search_todos(typed, o), <<typed>>, <<o>>)
    /\ UNCHANGED <<posts, written, sub_choice, last_post_data, created, returned, keyMsgs>>

\* main(): choice == "5"
DoWeather3 ==
    /\ Dispatching("weather3")
    /\ \E typed \in CityInputs, o \in DashOutcomes : After(get_weather3(typed, o), <<typed>>, <<o>>)
    /\ UNCHANGED <<posts, written, sub_choice, last_post_data, created, returned, keyMsgs>>

DashNext ==
    \/ SelectAction
    \/ SelectExit
    \/ SelectInvalid
    \/ DoWeather
    \/ DoCrypto
    \/ DoTopCryptos
    \/ DoQuick
    \/ DoCompare
    \/ DoCreate
    \/ DoSave
    \/ DoOpenWeather
    \/ DoUserInfo
    \/ DoSearchPosts
    \/ DoCryptoPrice
    \/ DoSearchTodos
    \/ DoWeather3

DashSpec == DashInit /\ [][DashNext]_vars

(***************************************************************************)
(* Properties of safe_api_request                                          *)
(***************************************************************************)
Attempting ==
    \/ AttemptSucceeds
    \/ AttemptNetworkIssue
    \/ AttemptHTTPError
    \/ AttemptRequestException
    \/ AttemptUncaught

\* Outcome categories, as the target produces them.
TransientOutcome(o) ==
    ~IsResponse(o) /\ o.exc \in {"ConnectionError", "Timeout", "ConnectTimeout", "ReadTimeout"}
OtherRequestFailure(o) ==
    ~IsResponse(o) /\ o.exc \in {"TooManyRedirects", "InvalidURL"}
ErrorStatus(o) == IsResponse(o) /\ o.status >= 400
NonJsonBody(o) == IsResponse(o) /\ o.status < 400 /\ o.body \notin JsonTexts
JsonBody(o) == IsResponse(o) /\ o.status < 400 /\ o.body \in JsonTexts

AllTransient(k) == \A i \in 1..k : TransientOutcome(trace[i])
Finished == xpc \in {"returned", "raised"}

\* C1: with retries = N >= 1 and every GET failing with ConnectionError or
\* Timeout, the call makes exactly N GETs and returns the failure
\* "Failed after N attempts"; it sleeps after each of the attempts 1..N-1
\* and not after attempt N, so it waits (N-1) * 2 seconds in all.
C1_AllTransientExhausts ==
    (xpc # "idle" /\ retries >= 1 /\ AllTransient(Len(trace))) =>
        /\ gets = Len(trace)
        /\ sleptAfter = 1..(IF gets < retries THEN gets ELSE retries - 1)
        /\ waited = Cardinality(sleptAfter) * BackoffSeconds
        /\ gets < retries => xpc = "loop" /\ ENABLED Attempting
        /\ gets >= retries =>
            /\ gets = retries
            /\ xpc = "returned"
            /\ result = Failure(FailedAfterMsg(retries))
            /\ waited = (retries - 1) * BackoffSeconds
            /\ ~ENABLED Attempting

C1_Witness ==
    /\ xpc = "returned"
    /\ retries >= 3
    /\ gets = retries
    /\ AllTransient(Len(trace))
    /\ sleptAfter = 1..(retries - 1)

\* C2: if attempts 1..K-1 fail with a transient error and attempt K
\* (K <= retries) gets a non-error response with a JSON body, the call
\* returns success with the parsed body after exactly K GETs.
C2_SuccessOnAttemptK ==
    \A k \in 1..Len(trace) :
        (AllTransient(k - 1) /\ JsonBody(trace[k])) =>
            /\ k <= retries
            /\ Len(trace) = k
            /\ gets = k
            /\ xpc = "returned"
            /\ result = Success(Loads(trace[k].body))
            /\ ~ENABLED Attempting

C2_Witness ==
    /\ xpc = "returned"
    /\ gets = retries
    /\ gets >= 3
    /\ AllTransient(gets - 1)
    /\ JsonBody(trace[gets])
    /\ trace[gets].body = PostDocText
    /\ result = Success(JObj([id |-> JNum(101), title |-> JStr("t"), body |-> JStr("b")]))

\* C3: a response with status >= 400 on any attempt ends the call at that
\* attempt with a failure carrying the status code; no sleep follows it and
\* no further GET is made.  A 404 on the first attempt: exactly one GET.
C3_ErrorStatusNotRetried ==
    \A k \in 1..Len(trace) :
        ErrorStatus(trace[k]) =>
            /\ Len(trace) = k
            /\ gets = k
            /\ xpc = "returned"
            /\ result = Failure(HttpErrorMsg(trace[k].status))
            /\ k \notin sleptAfter
            /\ waited = (k - 1) * BackoffSeconds
            /\ ~ENABLED Attempting

C3_Witness ==
    /\ xpc = "returned"
    /\ retries >= 3
    /\ gets = 1
    /\ trace[1] \in Responses
    /\ trace[1].status = 404
    /\ result = Failure(HttpErrorMsg(404))
    /\ waited = 0

\* C4: a response with a non-error status and a body that is not JSON ends
\* the call at that attempt with the failure of the RequestException clause
\* ("Request failed: ..."); it is not retried, nothing is raised to the
\* caller, and on the first attempt exactly one GET is made.
C4_NonJsonBodyFails ==
    \A k \in 1..Len(trace) :
        NonJsonBody(trace[k]) =>
            /\ Len(trace) = k
            /\ gets = k
            /\ xpc = "returned"
            /\ result = Failure(RequestFailedMsg("JSONDecodeError"))
            /\ k \notin sleptAfter
            /\ ~ENABLED Attempting

C4_Witness ==
    /\ xpc = "returned"
    /\ retries >= 3
    /\ gets = 1
    /\ NonJsonBody(trace[1])
    /\ trace[1].status = 200
    /\ ~result.success

\* C5: for retries >= 1 and GET outcomes that are transient failures, error
\* statuses, other request failures, non-JSON bodies or successes, nothing
\* is raised out of safe_api_request, and what it returns is a success
\* record with data or a failure record with an error message.
C5_NeverRaises ==
    (retries >= 1 /\ \A i \in 1..Len(trace) :
            \/ TransientOutcome(trace[i])
            \/ OtherRequestFailure(trace[i])
            \/ ErrorStatus(trace[i])
            \/ NonJsonBody(trace[i])
            \/ JsonBody(trace[i])) =>
        /\ xpc # "raised"
        /\ xpc = "returned" =>
            /\ "success" \in DOMAIN result
            /\ IF result.success
                 THEN DOMAIN result = {"success", "data"}
                 ELSE DOMAIN result = {"success", "error"}
        /\ xpc = "loop" => ENABLED Attempting

C5_Witness ==
    /\ xpc = "returned"
    /\ gets = 2
    /\ TransientOutcome(trace[1])
    /\ OtherRequestFailure(trace[2])
    /\ result = Failure(RequestFailedMsg("TooManyRedirects"))

\* C6: with retries = N >= 1 the number of GETs never exceeds N, and a call
\* that has ended made at least one.
C6_AttemptsBounded ==
    (xpc # "idle" /\ retries >= 1) =>
        /\ gets <= retries
        /\ Finished => gets >= 1

C6_Witness ==
    /\ xpc = "returned"
    /\ retries >= 3
    /\ gets = retries
    /\ ErrorStatus(trace[gets])

(***************************************************************************)
(* Properties of the menu loops                                            *)
(***************************************************************************)
ExitKey(p) == IF p = "part5" THEN <<"9">> ELSE <<"6">>

InvalidChoiceMsg(p) ==
    IF p = "part5" THEN <<"Invalid option. Try again.">>
    ELSE <<"Invalid choice. Please try again.">>

\* C7: no failure of a menu action of the dashboard ends its loop: whatever
\* the action meets (a payload without the expected fields, null values),
\* the error is caught and control is back at the prompt.
C7_ActionFailureKeepsLoop ==
    prog = "part5" => pc # "Crashed"

\* C8: the loop is always in one of the states Prompting, Dispatching and
\* Exited; it starts in Prompting, is in Dispatching only on a menu key other
\* than the exit key, is in Exited only after reading the exit key, and
\* once Exited takes no further step.
C8_DispatcherStateMachine ==
    /\ pc \in {"Prompting", "Dispatching", "Exited"}
    /\ iterations = 0 => pc = "Prompting"
    /\ pc = "Dispatching" => choice \in MenuKeys(prog) \ {ExitKey(prog)}
    /\ pc = "Exited" => choice = ExitKey(prog) /\ ~ENABLED DashNext

\* C9: every trimmed choice that is no key of the menu prints one
\* invalid-choice message, invokes no action and leaves the loop prompting;
\* so after m unknown keys and then the exit key, m messages were printed
\* and the loop ended in its iteration m+1.
C9_UnknownKeyReprompts ==
    /\ invalidMsgs = unknownRead
    /\ iterations = unknownRead + dispatched + (IF pc = "Exited" THEN 1 ELSE 0)
    /\ (iterations > 0 /\ choice \notin MenuKeys(prog)) =>
            /\ pc = "Prompting"
            /\ action = "none"
            /\ out = InvalidChoiceMsg(prog)
            /\ http = 0
    /\ (pc = "Exited" /\ unknownRead = iterations - 1) =>
            /\ dispatched = 0
            /\ invalidMsgs = iterations - 1
            /\ ~ENABLED DashNext

C9_Witness ==
    /\ prog = "part5"
    /\ pc = "Exited"
    /\ iterations = 3
    /\ unknownRead = 2
    /\ invalidMsgs = 2
    /\ dispatched = 0

\* C10: while the server has created no post in this run, the save menu's
\* third entry reports that there is no POST data and writes no file.
C10_SaveBeforeCreate ==
    (prog = "part5" /\ ~created) =>
        /\ last_post_data = Absent
        /\ (pc = "Prompting" /\ choice = <<"7">> /\ sub_choice = <<"3">>) =>
                /\ out = <<"No POST data available to save.">>
                /\ written = <<>>
                /\ http = 0

C10_Witness ==
    /\ prog = "part5"
    /\ ~created
    /\ pc = "Prompting"
    /\ dispatched = 2
    /\ choice = <<"7">>
    /\ sub_choice = <<"3">>
    /\ out = <<"No POST data available to save.">>
    /\ written = <<>>

LastPostFile == <<"l", "a", "s", "t", "_", "p", "o", "s", "t", ".", "j", "s", "o", "n">>

SavedLastPost == pc = "Prompting" /\ choice = <<"7">> /\ sub_choice = <<"3">>

\* C11: once the server has created a post, the slot holds the payload of the
\* most recent post created, whatever else was chosen since; and the save
\* menu's third entry, unless the file cannot be opened, writes exactly that
\* payload to last_post.json.
C11_SaveWritesLastCreated ==
    (prog = "part5" /\ created) =>
        /\ last_post_data = returned
        /\ (SavedLastPost /\ out # <<"Failed to save data">>) =>
                written = <<[name |-> LastPostFile, data |-> returned]>>

\* The part of C11 about the slot alone.
C11_SlotHoldsLastCreated ==
    prog = "part5" => last_post_data = returned


AfterCreate == prog = "part5" /\ choice = <<"6">> /\ pc \in {"Prompting", "Crashed"}

EmptyPostMsg == <<"Title and body cannot be empty.">>

CreateFailedMsg == <<"Failed to create post">>

\* C12: one invocation of create_post sends at most one POST, and exactly one
\* when a title and a body were typed.  When that POST meets a transient
\* failure, an error status or a body that does not parse, the function
\* sends nothing more, prints the failure, leaves the slot as it was and
\* returns, and the loop prompts again.
C12_CreatePostsOnce ==
    /\ posts <= 1
    /\ AfterCreate =>
          /\ http = posts
          /\ posts = (IF out = EmptyPostMsg THEN 0 ELSE 1)
          /\ out = CreateFailedMsg => pc = "Prompting" /\ last_post_data = returned
    /\ prog = "part5" =>
          \A t \in TitleInputs, b \in BodyInputs, o \in Outcomes :
              (/\ Strip(t) # <<>>
               /\ Strip(b) # <<>>
               /\ TransientOutcome(o) \/ ErrorStatus(o) \/ NonJsonBody(o))
              => create_post(last_post_data, t, b, o)
                   = [exc |-> "none", http |-> 1, slot |-> last_post_data,
                      out |-> CreateFailedMsg]

C12_Witness ==
    /\ AfterCreate
    /\ pc = "Prompting"
    /\ dispatched = 2
    /\ created
    /\ posts = 1
    /\ out = CreateFailedMsg
    /\ last_post_data = returned

NoKeyMsg == <<"No API key provided.">>

AfterOpenWeather == prog = "part5" /\ choice = <<"8">> /\ pc \in {"Prompting", "Crashed"}

C14_NoRetriesReturnsNone ==
    (xpc # "idle" /\ retries <= 0) =>
        /\ gets = 0
        /\ attempt = 0
        /\ waited = 0
        /\ xpc \in {"loop", "returned"}
        /\ xpc = "returned" =>
              /\ result = NoneValue
              /\ "success" \notin DOMAIN result
              /\ ReadSuccess(result).exc = "TypeError"

C14_Witness ==
    /\ xpc = "returned"
    /\ retries = 0
    /\ gets = 0
    /\ result = NoneValue
    /\ ReadSuccess(result).exc = "TypeError"

\* A decimal number in 1..10, written with the digits 0 to 9.
DecimalIn1to10(user_id) ==
    /\ user_id # <<>>
    /\ \A i \in DOMAIN user_id : user_id[i] \in DecimalChars
    /\ IntOf(user_id) \in 1..10

\* The action of this iteration has run and what was typed to it is invalid.
InvalidLocalInput ==
    /\ pc \in {"Prompting", "Crashed"}
    /\ lines # <<>>
    /\ \/ prog = "part3" /\ choice = <<"1">> /\ ~DecimalIn1to10(lines[1])
       \/ prog = "part3" /\ choice = <<"2">> /\ ~DecimalIn1to10(Strip(lines[1]))
       \/ prog = "part3" /\ choice = <<"4">>
            /\ Strip(Lower(lines[1])) \notin {<<"t", "r", "u", "e">>, <<"f", "a", "l", "s", "e">>}
       \/ prog = "part3" /\ choice = <<"5">> /\ Strip(Lower(lines[1])) \notin city_coords
       \/ prog = "part5" /\ choice = <<"1">> /\ Strip(Lower(lines[1])) \notin CITIES
       \/ prog = "part5" /\ choice = <<"6">>
            /\ (Strip(lines[1]) = <<>> \/ Strip(lines[2]) = <<>>)

\* C15: an action given an invalid local input (a user id that is no decimal
\* number in 1..10, a status other than true/false, a city outside the city
\* table, an empty post title or body) returns to the loop having sent no
\* HTTP request and with the last-create slot as it was; and
\* fetch_crypto_safely, given an empty coin, returns without calling
\* safe_api_request.
C15_InvalidInputNoRequest ==
    /\ InvalidLocalInput =>
          /\ pc = "Prompting"
          /\ crashedWith = "none"
          /\ http = 0
          /\ posts = 0
          /\ last_post_data = returned
    /\ \A typed \in SafeCoinInputs, res \in SafeResults :
          Lower(Strip(typed)) = <<>> =>
              /\ fetch_crypto_safely(typed, res).exc = "none"
              /\ fetch_crypto_safely(typed, res).calls = 0

\* The script run is part4_error_handling.py: no menu loop.
Init ==
    /\ XInit
    /\ DInit
    /\ prog = "part4"
    /\ apiKey = TRUE
    /\ warnings = 0

Next ==
    \/ Call
    \/ AttemptSucceeds
    \/ AttemptNetworkIssue
    \/ AttemptHTTPError
    \/ AttemptRequestException
    \/ AttemptUncaught
    \/ LoopExhausted

Spec == Init /\ [][Next]_vars

====
